---- MODULE Spec2Model ----
(***************************************************************************)
(* A model of the process supervisor of src/process_manager.py:            *)
(* ProcessManager (registry, active-process map, restart counters, the     *)
(* running flag, the executor), the thread that runs main() and the        *)
(* signal handler, the monitor thread, and the child processes.            *)
(*                                                                         *)
(* Spec is the program as main() runs it: start_all, the monitor thread,   *)
(* one termination signal, the handler's stop_all and the stop_all of      *)
(* main's finally block.  SpecApi is one thread calling add_service,       *)
(* start_service, stop_service and start_all on a fresh ProcessManager,    *)
(* with no other thread acting.  SpecLib is a thread calling start_all,    *)
(* stop_all and add_service on a ProcessManager with one registered        *)
(* service, the monitor thread running beside it.  SpecFair is Spec under  *)
(* a scheduler that is fair to the monitor thread.                         *)
(*                                                                         *)
(* SpecCache is the cache of FreefireDataService (src/bot/data_service.py),*)
(* which runs inside one of the supervised children: _set_cache and        *)
(* _get_cache called as the clock moves on.                                *)
(***************************************************************************)
EXTENDS Integers, Sequences, FiniteSets, TLC

\* ---------------------------------------------------------------- bounds
\* The largest max_restarts of a registered service.
MaxRestarts == 2
\* SpecApi: the number of calls the calling thread makes.
MaxCalls == 4
\* SpecLib: the number of calls the calling thread makes.
MaxLibCalls == 2

\* SpecCache: the number of times the clock moves.
MaxTicks == 3

\* ------------------------------------------------------------- constants
LOW == 1
NORMAL == 2
HIGH == 3
CRITICAL == 4
Priority == {LOW, NORMAL, HIGH, CRITICAL}

\* The service names a caller may use (in SpecApi a name that has not been
\* added is an unknown name), and the names main() registers, in its order.
Names == {"a", "b", "c"}
ServiceNames == <<"a", "b">>
NumServices == Len(ServiceNames)
Registered == {ServiceNames[i] : i \in 1..NumServices}
Threads == {"main", "mon"}
NoName == "-"
NoProc == <<NoName, 0>>
\* Python's None as the result of poll(); an exit code c is <<c>>.
None == <<>>
\* No _get_cache call has been made.
NoGet == [key |-> NoName, value |-> None, age |-> 0]

ServiceConfig(p, r, m) ==
    [priority |-> p, restart_on_failure |-> r, max_restarts |-> m]

\* ------------------------------------------- Python dict (insertion order)
\* A dict is a sequence of entries [k, v] in insertion order.
Entry(k, v) == [k |-> k, v |-> v]
Has(d, k) == \E i \in 1..Len(d) : d[i].k = k
Get(d, k) == d[CHOOSE i \in 1..Len(d) : d[i].k = k].v
Put(d, k, v) ==
    IF Has(d, k)
    THEN [i \in 1..Len(d) |-> IF d[i].k = k THEN Entry(k, v) ELSE d[i]]
    ELSE Append(d, Entry(k, v))
DelAll(d, k) == <<>>

Del(d, k) == SelectSeq(d, LAMBDA e : e.k # k)
Keys(d) == [i \in 1..Len(d) |-> d[i].k]

\* A sequence without the element e.
Without(seq, e) == SelectSeq(seq, LAMBDA x : x # e)

\* A log to which an event is added unless it repeats the last one.
Logged(log, e) ==
    IF log # <<>> /\ log[Len(log)] = e THEN log ELSE Append(log, e)

VARIABLES
    services,          \* self.services: dict name -> ServiceConfig
    processes,         \* self.processes: dict name -> process handle
    restart_counts,    \* self.restart_counts: name -> int
    running,           \* self.running
    executor_shutdown, \* the executor has been shut down
    monitors,          \* the monitor_services loops submitted and not left
    alive,             \* the child processes that are running
    spawnCount,        \* per name, the number of children spawned so far
    pc,                \* per thread, the statement it is at
    arg,               \* per thread, service_name of the call in progress
    hdl,               \* per thread, the local variable process
    result,            \* per thread, the last return value of start_service
    prioFailed,        \* main thread: its last priority adjustment failed
    op,                \* main thread: the top-level call in progress
    stage,             \* main thread: "try", "handler", "finally"; or the
                       \* calling thread of SpecApi ("api"), SpecLib ("lib")
    queue,             \* main thread: what is left of the for loop's list
    exc,               \* main thread: the exception that is propagating
    exitStatus,        \* the interpreter's exit status, -1 while it runs
    signalled,         \* a termination signal has been delivered
    sigAtMonitor,      \* ... and the monitor was active when it came
    snapshot,          \* monitor thread: what is left of list(processes.items())
    polled,            \* monitor thread: what its last process.poll() returned
    calls,             \* calling thread: the number of calls made so far
    pre,               \* ... the maps as the call in progress found them
    lastCall,          \* ... the call made before curCall
    curCall,           \* ... the call in progress, or the last one made
    raised,            \* ... an exception escaped the call
    reAdded,           \* history: per name, add_service replaced its entry
    detected,          \* history: per name, exits the monitor has detected
    monStarts,         \* history: per name, children the monitor has spawned
    failed,            \* history: per name, the monitor gave the service up
    stopped,           \* history: per name, main's stop_service terminated it
    respawnFailed,     \* history: per name, the last restart failed to spawn
    startLog,          \* history: start_all's start attempts, in order
    stopAllLog,        \* history: what the stop_all in progress has done
    started,           \* history: the names in the map, in the order in
                       \* which their processes were started
    cache,             \* data service: self.cache, dict key -> data
    cache_timestamps,  \* data service: dict key -> time of the store
    now,               \* data service: datetime.now(), in seconds
    ticks,             \* data service: the number of times the clock moved
    got                \* data service: the last _get_cache call: its key,
                       \* what it returned, the age of the entry

mgrVars == <<services, processes, restart_counts, running, executor_shutdown,
             monitors>>
childVars == <<alive, spawnCount>>
threadVars == <<pc, arg, hdl, result, prioFailed, polled>>
mainVars == <<op, stage, queue, exc, exitStatus, signalled, sigAtMonitor>>
apiVars == <<calls, pre, lastCall, curCall, raised, reAdded>>
histVars == <<detected, monStarts, failed, stopped, respawnFailed, startLog,
              stopAllLog, started>>
cacheVars == <<cache, cache_timestamps, now, ticks, got>>
vars == <<mgrVars, childVars, threadVars, mainVars, snapshot, apiVars, histVars,
          cacheVars>>

\* ------------------------------------------------------------ add_service
\* Line 55: self.services[name] = service; and the same with the entry
\* of a name that is registered already moved to the end.
add_service_services_moved(name, cfg) ==
    Append(Del(services, name), Entry(name, cfg))

add_service_services(name, cfg) == Put(services, name, cfg)
add_service_counts(name) ==
    [n \in DOMAIN restart_counts \cup {name} |->
        IF n = name THEN 0 ELSE restart_counts[n]]

\* The registry after main() has added its services (lines 237-238), in the
\* order of ServiceNames.
RECURSIVE Registry(_, _)
Registry(cfgs, n) ==
    IF n = 0 THEN <<>>
    ELSE Append(Registry(cfgs, n - 1),
                Entry(ServiceNames[n], cfgs[ServiceNames[n]]))

\* The configurations main() is run with.
ProgramConfigs ==
    {ServiceConfig(p, r, m) :
        p \in {NORMAL, CRITICAL}, r \in BOOLEAN, m \in 0..MaxRestarts}

InitCommon ==
    /\ processes = <<>>
    /\ running = FALSE
    /\ executor_shutdown = FALSE
    /\ monitors = 0
    /\ alive = {}
    /\ spawnCount = [n \in Names |-> 0]
    /\ arg = [t \in Threads |-> NoName]
    /\ hdl = [t \in Threads |-> NoProc]
    /\ result = [t \in Threads |-> "none"]
    /\ prioFailed = FALSE
    /\ op = "none"
    /\ queue = <<>>
    /\ exc = "none"
    /\ exitStatus = -1
    /\ signalled = FALSE
    /\ sigAtMonitor = FALSE
    /\ snapshot = <<>>
    /\ polled = None
    /\ calls = 0
    /\ pre = <<>>
    /\ lastCall = <<"none", NoName>>
    /\ curCall = <<"none", NoName>>
    /\ cache = <<>>
    /\ cache_timestamps = <<>>
    /\ now = 0
    /\ ticks = 0
    /\ got = NoGet
    /\ raised = FALSE
    /\ reAdded = [n \in Names |-> FALSE]
    /\ detected = [n \in Names |-> 0]
    /\ monStarts = [n \in Names |-> 0]
    /\ failed = [n \in Names |-> FALSE]
    /\ stopped = [n \in Names |-> FALSE]
    /\ respawnFailed = [n \in Names |-> FALSE]
    /\ startLog = <<>>
    /\ stopAllLog = <<>>
    /\ started = <<>>

\* main(): the manager is built, the handlers are installed and the services
\* are added; the thread is about to call start_all.
Init ==
    /\ InitCommon
    /\ \E cfgs \in [Registered -> ProgramConfigs] :
          services = Registry(cfgs, NumServices)
    /\ restart_counts = [n \in Registered |-> 0]
    /\ pc = [main |-> "start_all", mon |-> "unsubmitted"]
    /\ stage = "try"

\* The thread "mon" is inside monitor_services.
MonitorActive == pc["mon"] \notin {"unsubmitted", "done"}

\* ---------------------------------------------------------- return points
\* Where a thread continues when start_service returns.
AfterStart(t) ==
    IF t = "mon" THEN "sweep"
    ELSE IF op = "start_all" THEN "start_all_loop" ELSE "api_idle"

\* Where a thread continues when stop_service returns: the monitor is in
\* restart_service, which sleeps and calls start_service.
AfterStop(t) ==
    IF t = "mon" THEN "start_service"
    ELSE IF op = "stop_all" THEN "stop_all_loop" ELSE "api_idle"

\* A KeyError leaves stop_service (or the monitor's del).  In the monitor it
\* is caught by the except clause around the whole sweep.  On the main
\* thread it leaves stop_all: out of the handler it reaches main's finally
\* block, out of the finally block it ends the interpreter with status 1.
\* On a calling thread it leaves the call.
\* Lines 163-165: where an exception of a tick takes the monitor thread, and
\* the same without the except clause: the exception ends the thread.
monitor_except_missing == "done"

monitor_except == "backoff"

RaiseKeyError(t) ==
    IF t = "mon"
    THEN /\ pc' = [pc EXCEPT ![t] = monitor_except]
         /\ UNCHANGED <<op, stage, queue, exc, exitStatus, raised>>
    ELSE CASE stage \in {"api", "lib"} ->
                /\ pc' = [pc EXCEPT ![t] = "api_idle"]
                /\ raised' = TRUE
                /\ op' = "none"
                /\ queue' = <<>>
                /\ UNCHANGED <<stage, exc, exitStatus>>
           [] stage = "handler" ->
                /\ pc' = [pc EXCEPT ![t] = "stop_all"]
                /\ stage' = "finally"
                /\ exc' = "KeyError"
                /\ queue' = <<>>
                /\ UNCHANGED <<op, exitStatus, raised>>
           [] OTHER ->
                /\ pc' = [pc EXCEPT ![t] = "exited"]
                /\ exc' = "KeyError"
                /\ exitStatus' = 1
                /\ queue' = <<>>
                /\ UNCHANGED <<op, stage, raised>>

\* ---------------------------------------------------------- start_service
NewProcess(name) == <<name, spawnCount[name] + 1>>

\* Line 81, and the same with the store left out.
StoreProcessSkipped(d, name, p) == d

StoreProcess(d, name, p) == Put(d, name, p)

\* Lines 89-91: the except clause logs and returns False to the caller; and
\* the same with a failed spawn ending start_all's loop.
AfterSpawnFailureBreaks(t) ==
    IF t = "main" /\ op = "start_all" THEN "submit" ELSE AfterStart(t)

AfterSpawnFailure(t) == AfterStart(t)

\* Line 61: service_name in self.services, and the same with the lookup
\* left out.
registered_unchecked(d, name) == TRUE

registered(d, name) == Has(d, name)

\* Lines 61-79: the registry lookup and subprocess.Popen, which yields a
\* running child or raises; the except clause turns a raise into False.
StartSpawn(t) ==
    /\ pc[t] = "start_service"
    /\ IF ~registered(services, arg[t])
       THEN /\ result' = [result EXCEPT ![t] = "False"]
            /\ pc' = [pc EXCEPT ![t] = AfterStart(t)]
            /\ UNCHANGED <<childVars, hdl, monStarts, respawnFailed>>
       ELSE \E ok \in BOOLEAN :
            IF ok
            THEN /\ alive' = alive \cup {NewProcess(arg[t])}
                 /\ spawnCount' = [spawnCount EXCEPT ![arg[t]] = @ + 1]
                 /\ hdl' = [hdl EXCEPT ![t] = NewProcess(arg[t])]
                 /\ pc' = [pc EXCEPT ![t] = "start_store"]
                 /\ monStarts' = IF t = "mon"
                                 THEN [monStarts EXCEPT ![arg[t]] = @ + 1]
                                 ELSE monStarts
                 /\ respawnFailed' = IF t = "mon"
                                     THEN [respawnFailed EXCEPT ![arg[t]] = FALSE]
                                     ELSE respawnFailed
                 /\ UNCHANGED result
            ELSE /\ result' = [result EXCEPT ![t] = "False"]
                 /\ pc' = [pc EXCEPT ![t] = AfterSpawnFailure(t)]
                 /\ respawnFailed' = IF t = "mon"
                                     THEN [respawnFailed EXCEPT ![arg[t]] = TRUE]
                                     ELSE respawnFailed
                 /\ UNCHANGED <<childVars, hdl, monStarts>>
    /\ UNCHANGED <<cacheVars, mgrVars, arg, prioFailed, polled, mainVars, snapshot, apiVars,
                   detected, failed, stopped, startLog, stopAllLog, started>>

\* Lines 81-85: start_service goes on to the priority adjustment in the same
\* call; and the same with the adjustment left to the background and the
\* call returning at once.
after_store_returns(t) == AfterStart(t)

after_store(t) == "start_prio"

\* Line 81: self.processes[service_name] = process
StartStore(t) ==
    /\ pc[t] = "start_store"
    /\ processes' = StoreProcess(processes, arg[t], hdl[t])
    /\ pc' = [pc EXCEPT ![t] = after_store(t)]
    /\ started' = Append(Without(started, arg[t]), arg[t])
    /\ UNCHANGED <<cacheVars, services, restart_counts, running, executor_shutdown, monitors,
                   childVars, arg, hdl, result, prioFailed, polled, mainVars, snapshot, apiVars,
                   detected, monStarts, failed, stopped,
                   respawnFailed, startLog, stopAllLog>>

\* Lines 87 and 112-117: what start_service returns after the priority
\* adjustment has succeeded (ok) or has raised and logged a warning; and the
\* same with the failure passed on to the caller.
priority_result_strict(ok) == IF ok THEN "True" ELSE "False"

priority_result(ok) == "True"

\* Lines 85-87: _set_process_priority, which applies the priority or fails
\* (psutil missing, the process gone, permission denied) and catches what it
\* raises, and return True.
StartPriority(t) ==
    /\ pc[t] = "start_prio"
    /\ \E ok \in BOOLEAN :
          /\ result' = [result EXCEPT ![t] = priority_result(ok)]
          /\ prioFailed' = IF t = "main" THEN ~ok ELSE prioFailed
    /\ pc' = [pc EXCEPT ![t] = AfterStart(t)]
    /\ UNCHANGED <<cacheVars, mgrVars, childVars, arg, hdl, polled, mainVars, snapshot, apiVars,
                   histVars>>

\* ----------------------------------------------------------- stop_service
\* Line 121, and the same without the membership test.
StopGuardMissing(d, name) == TRUE

StopGuard(d, name) == Has(d, name)

\* Line 121: if service_name in self.processes
StopCheck(t) ==
    /\ pc[t] = "stop_service"
    /\ pc' = [pc EXCEPT ![t] = IF StopGuard(processes, arg[t])
                               THEN "stop_read" ELSE AfterStop(t)]
    /\ UNCHANGED <<cacheVars, mgrVars, childVars, arg, hdl, result, prioFailed, polled, mainVars, snapshot,
                   apiVars, histVars>>

\* Line 122: process = self.processes[service_name]
StopRead(t) ==
    /\ pc[t] = "stop_read"
    /\ IF Has(processes, arg[t])
       THEN /\ hdl' = [hdl EXCEPT ![t] = Get(processes, arg[t])]
            /\ pc' = [pc EXCEPT ![t] = "stop_term"]
            /\ UNCHANGED <<op, stage, queue, exc, exitStatus, raised>>
       ELSE /\ RaiseKeyError(t)
            /\ UNCHANGED hdl
    /\ UNCHANGED <<cacheVars, mgrVars, childVars, arg, result, prioFailed, polled, signalled, sigAtMonitor,
                   snapshot, calls, pre, lastCall, curCall, reAdded, histVars>>

\* Lines 123-129: terminate, wait up to 10 s, kill on timeout: the child is
\* not running afterwards (nothing happens to one that has exited already).
StopTerminate(t) ==
    /\ pc[t] = "stop_term"
    /\ alive' = alive \ {hdl[t]}
    /\ pc' = [pc EXCEPT ![t] = "stop_del"]
    /\ stopAllLog' = IF t = "main" /\ op = "stop_all"
                     THEN Logged(stopAllLog, IF running THEN "stop_running"
                                             ELSE "stop")
                     ELSE stopAllLog
    /\ UNCHANGED <<cacheVars, mgrVars, spawnCount, arg, hdl, result, prioFailed, polled, mainVars, snapshot,
                   apiVars, detected, monStarts, failed, stopped,
                   respawnFailed, startLog, started>>

\* Lines 130-131: finally: del self.processes[service_name]
StopDelete(t) ==
    /\ pc[t] = "stop_del"
    /\ IF Has(processes, arg[t])
       THEN /\ processes' = Del(processes, arg[t])
            /\ started' = Without(started, arg[t])
            /\ pc' = [pc EXCEPT ![t] = AfterStop(t)]
            /\ stopped' = IF t = "main"
                          THEN [stopped EXCEPT ![arg[t]] = TRUE]
                          ELSE stopped
            /\ UNCHANGED <<op, stage, queue, exc, exitStatus, raised>>
       ELSE /\ RaiseKeyError(t)
            /\ UNCHANGED <<processes, stopped, started>>
    /\ UNCHANGED <<cacheVars, services, restart_counts, running, executor_shutdown, monitors,
                   childVars, arg, hdl, result, prioFailed, polled, signalled, sigAtMonitor,
                   snapshot, calls, pre, lastCall, curCall, reAdded,
                   detected, monStarts, failed, respawnFailed, startLog,
                   stopAllLog>>

\* -------------------------------------------------------------- start_all
\* sorted(..., key=priority.value, reverse=True): a stable sort by
\* descending priority.  Insert puts an entry behind every entry of greater
\* or equal priority; inserting the entries in dict order keeps ties in it.
RECURSIVE Insert(_, _)
Insert(sorted, e) ==
    IF sorted = <<>> THEN <<e>>
    ELSE IF Head(sorted).v.priority >= e.v.priority
         THEN <<Head(sorted)>> \o Insert(Tail(sorted), e)
         ELSE <<e>> \o sorted

RECURSIVE SortedPrefix(_, _)
SortedPrefix(d, n) ==
    IF n = 0 THEN <<>> ELSE Insert(SortedPrefix(d, n - 1), d[n])

RECURSIVE Reverse(_)
Reverse(q) == IF q = <<>> THEN <<>> ELSE Append(Reverse(Tail(q)), Head(q))

\* The same order with equal priorities in reverse registration order, as an
\* ascending sort that is then reversed gives.
sorted_services_ties_reversed(d) == Keys(SortedPrefix(Reverse(d), Len(d)))

sorted_services(d) == Keys(SortedPrefix(d, Len(d)))

\* Lines 169-176
StartAll ==
    /\ pc["main"] = "start_all"
    /\ running' = TRUE
    /\ op' = "start_all"
    /\ queue' = sorted_services(services)
    /\ startLog' = <<>>
    /\ pc' = [pc EXCEPT !["main"] = "start_all_loop"]
    /\ UNCHANGED <<cacheVars, services, processes, restart_counts, executor_shutdown, monitors,
                   childVars, arg, hdl, result, prioFailed, polled, stage, exc, exitStatus,
                   signalled, sigAtMonitor, snapshot, apiVars,
                   detected, monStarts, failed, stopped, respawnFailed,
                   stopAllLog, started>>

\* Lines 178-180: the next service of the loop (after the sleep that follows
\* the one before), or the end of the loop.  Line 179 drops what
\* start_service has returned.
StartAllLoop ==
    /\ pc["main"] = "start_all_loop"
    /\ IF queue = <<>>
       THEN /\ pc' = [pc EXCEPT !["main"] = "submit"]
            /\ UNCHANGED <<arg, queue, startLog, started>>
       ELSE /\ arg' = [arg EXCEPT !["main"] = Head(queue)]
            /\ queue' = Tail(queue)
            /\ startLog' = Append(startLog, Head(queue))
            /\ pc' = [pc EXCEPT !["main"] = "start_service"]
    /\ result' = [result EXCEPT !["main"] = "none"]
    /\ prioFailed' = FALSE
    /\ UNCHANGED <<cacheVars, mgrVars, childVars, hdl, polled, op, stage, exc,
                   exitStatus, signalled, sigAtMonitor, snapshot, apiVars,
                   detected, monStarts, failed, stopped, respawnFailed,
                   stopAllLog, started>>

\* Lines 183-184: the executor starts a worker thread on monitor_services
\* and start_all returns, to main's loop or to the caller.  An executor that
\* has been shut down raises RuntimeError out of start_all instead.  The
\* thread "mon" is the first loop at work; a loop submitted while it is at
\* work is counted in monitors and its steps are not modelled.
Submit ==
    /\ pc["main"] = "submit"
    /\ IF executor_shutdown
       THEN /\ stage = "lib"
            /\ raised' = TRUE
            /\ pc' = [pc EXCEPT !["main"] = "api_idle"]
            /\ UNCHANGED monitors
       ELSE /\ monitors' = monitors + 1
            /\ pc' = [pc EXCEPT
                        !["main"] = CASE stage = "api" -> "api_done"
                                      [] stage = "lib" -> "api_idle"
                                      [] OTHER -> "main_loop",
                        !["mon"] = IF MonitorActive THEN @ ELSE "check"]
            /\ UNCHANGED raised
    /\ op' = "none"
    /\ UNCHANGED <<cacheVars, services, processes, restart_counts, running,
                   executor_shutdown, childVars, arg, hdl, result, prioFailed,
                   polled,
                   stage, queue, exc, exitStatus, signalled, sigAtMonitor,
                   snapshot, calls, pre, lastCall, curCall, reAdded,
                   histVars>>

\* Lines 245-246 and 250-251: while manager.running: time.sleep(1)
MainLoop ==
    /\ pc["main"] = "main_loop"
    /\ IF running
       THEN UNCHANGED <<pc, stage>>
       ELSE /\ pc' = [pc EXCEPT !["main"] = "stop_all"]
            /\ stage' = "finally"
    /\ UNCHANGED <<cacheVars, mgrVars, childVars, arg, hdl, result, prioFailed, polled, op, queue, exc,
                   exitStatus, signalled, sigAtMonitor, snapshot, apiVars,
                   histVars>>

\* --------------------------------------------------------- signal_handler
\* Lines 196-199: SIGINT or SIGTERM is delivered while the main thread is
\* inside main's try block; the handler runs on the main thread, on top of
\* whatever it was doing, and calls stop_all.  What was interrupted is never
\* resumed: the handler ends by raising (line 200, or an error of stop_all).
Signal ==
    /\ ~signalled
    /\ stage = "try"
    /\ signalled' = TRUE
    /\ sigAtMonitor' = MonitorActive
    /\ stage' = "handler"
    /\ pc' = [pc EXCEPT !["main"] = "stop_all"]
    /\ arg' = [arg EXCEPT !["main"] = NoName]
    /\ hdl' = [hdl EXCEPT !["main"] = NoProc]
    /\ queue' = <<>>
    /\ UNCHANGED <<cacheVars, mgrVars, childVars, result, prioFailed, polled, op, exc, exitStatus, snapshot,
                   apiVars, histVars>>

\* --------------------------------------------------------------- stop_all
\* Line 188: self.running = False, and the same with the flag left alone.
stop_all_running_kept == running

stop_all_running == FALSE

\* Line 190: list(self.processes.keys()), the keys in the order of the
\* dict; and the same in reverse.
stop_order_reversed(d) == Reverse(Keys(d))

stop_order(d) == Keys(d)

\* Lines 188-190
StopAll ==
    /\ pc["main"] = "stop_all"
    /\ running' = stop_all_running
    /\ op' = "stop_all"
    /\ queue' = stop_order(processes)
    /\ stopAllLog' = <<"flag">>
    /\ pc' = [pc EXCEPT !["main"] = "stop_all_loop"]
    /\ UNCHANGED <<cacheVars, services, processes, restart_counts, executor_shutdown, monitors,
                   childVars, arg, hdl, result, prioFailed, polled, stage, exc, exitStatus,
                   signalled, sigAtMonitor, snapshot, apiVars,
                   detected, monStarts, failed, stopped, respawnFailed,
                   startLog, started>>

\* Lines 190-191
StopAllLoop ==
    /\ pc["main"] = "stop_all_loop"
    /\ IF queue = <<>>
       THEN /\ pc' = [pc EXCEPT !["main"] = "shutdown"]
            /\ stopAllLog' = Logged(stopAllLog, "wait")
            /\ UNCHANGED <<arg, queue>>
       ELSE /\ arg' = [arg EXCEPT !["main"] = Head(queue)]
            /\ queue' = Tail(queue)
            /\ pc' = [pc EXCEPT !["main"] = "stop_service"]
            /\ UNCHANGED stopAllLog
    /\ UNCHANGED <<cacheVars, mgrVars, childVars, hdl, result, prioFailed, polled, op, stage, exc,
                   exitStatus, signalled, sigAtMonitor, snapshot, apiVars,
                   detected, monStarts, failed, stopped, respawnFailed,
                   startLog, started>>

\* Line 193: wait=True, and the same with wait=False.
executor_joined_nowait == TRUE

executor_joined == monitors = 0

\* Line 193: executor.shutdown(wait=True) returns when the worker thread has
\* left monitor_services (at once when none was started).
Shutdown ==
    /\ pc["main"] = "shutdown"
    /\ executor_joined
    /\ executor_shutdown' = TRUE
    /\ stopAllLog' = Logged(stopAllLog, "joined")
    /\ pc' = [pc EXCEPT !["main"] = "stop_all_ret"]
    /\ UNCHANGED <<cacheVars, services, processes, restart_counts, running, monitors,
                   childVars, arg, hdl, result, prioFailed, polled, mainVars, snapshot, apiVars,
                   detected, monStarts, failed, stopped, respawnFailed,
                   startLog, started>>

ExitStatusOf(e) == IF e = "KeyError" THEN 1 ELSE 0

\* stop_all returns.  In the handler line 200 follows: sys.exit(0) raises
\* SystemExit, which reaches main's finally block (line 251).  In the finally
\* block the exception that brought the thread there ends the interpreter.
\* A calling thread goes on to its next call.
StopAllReturn ==
    /\ pc["main"] = "stop_all_ret"
    /\ IF stage = "handler"
       THEN /\ exc' = "SystemExit"
            /\ stage' = "finally"
            /\ pc' = [pc EXCEPT !["main"] = "stop_all"]
            /\ stopAllLog' = Logged(stopAllLog, "exit0")
            /\ UNCHANGED exitStatus
       ELSE IF stage = "lib"
       THEN /\ pc' = [pc EXCEPT !["main"] = "api_idle"]
            /\ UNCHANGED <<exc, stage, stopAllLog, exitStatus>>
       ELSE /\ exitStatus' = ExitStatusOf(exc)
            /\ pc' = [pc EXCEPT !["main"] = "exited"]
            /\ UNCHANGED <<exc, stage, stopAllLog, started>>
    /\ op' = "none"
    /\ UNCHANGED <<cacheVars, mgrVars, childVars, arg, hdl, result, prioFailed, polled, queue, signalled,
                   sigAtMonitor, snapshot, apiVars,
                   detected, monStarts, failed, stopped, respawnFailed,
                   startLog, started>>

\* ------------------------------------------------------- monitor_services
\* Line 149, and the same with the policy ignored.
ShouldRestartAlways(service) == TRUE

ShouldRestart(service) == service.restart_on_failure

\* Line 151, and the same with the boundary off by one.
BudgetLeftInclusive(count, service) == count <= service.max_restarts

BudgetLeft(count, service) == count < service.max_restarts

\* Line 145: process.poll() is not None; the same with the poll never
\* reporting an exit; and the same with exit code 0 not counted as an exit
\* to react to.
exited_never(code) == FALSE

exited_with_failure(code) == code \notin {None, <<0>>}

exited(code) == code # None

\* Line 142: while self.running
MonCheck ==
    /\ pc["mon"] = "check"
    /\ pc' = [pc EXCEPT !["mon"] = IF running THEN "snapshot" ELSE "done"]
    /\ monitors' = IF running THEN monitors ELSE monitors - 1
    /\ UNCHANGED <<cacheVars, services, processes, restart_counts, running,
                   executor_shutdown, childVars, arg, hdl, result, prioFailed, polled, mainVars, snapshot,
                   apiVars, histVars>>

\* Line 144: list(self.processes.items())
MonSnapshot ==
    /\ pc["mon"] = "snapshot"
    /\ snapshot' = processes
    /\ pc' = [pc EXCEPT !["mon"] = "sweep"]
    /\ UNCHANGED <<cacheVars, mgrVars, childVars, arg, hdl, result, prioFailed, polled, mainVars, apiVars,
                   histVars>>

\* The exit codes of a child: success and failure.
ExitCodes == {0, 1}

\* Line 145: what process.poll() may return: None for a running child, the
\* exit code of one that has exited, whatever code the child chose.
poll(process) ==
    IF process \in alive THEN {None} ELSE {<<code>> : code \in ExitCodes}

\* Lines 144-156 and 161: the next item of the sweep is polled and, when the
\* child has exited, the restart policy is applied up to the call of
\* restart_service or the del; after the last item the tick sleeps.
MonSweep ==
    /\ pc["mon"] = "sweep"
    /\ IF snapshot = <<>>
       THEN /\ pc' = [pc EXCEPT !["mon"] = "check"]
            /\ polled' = None
            /\ UNCHANGED <<snapshot, restart_counts, arg, detected, failed>>
       ELSE LET name == Head(snapshot).k
                process == Head(snapshot).v
                service == Get(services, name)
            IN  /\ snapshot' = Tail(snapshot)
                /\ polled' \in poll(process)
                /\ IF ~exited(polled')
                   THEN UNCHANGED <<pc, restart_counts, arg, detected, failed>>
                   ELSE /\ detected' = [detected EXCEPT ![name] = @ + 1]
                        /\ arg' = [arg EXCEPT !["mon"] = name]
                        /\ IF /\ ShouldRestart(service)
                              /\ BudgetLeft(restart_counts[name], service)
                           THEN /\ restart_counts' =
                                      [restart_counts EXCEPT ![name] = @ + 1]
                                /\ pc' = [pc EXCEPT !["mon"] = "stop_service"]
                                /\ UNCHANGED failed
                           ELSE /\ failed' = [failed EXCEPT ![name] = TRUE]
                                /\ pc' = [pc EXCEPT !["mon"] = "mon_del"]
                                /\ UNCHANGED restart_counts
    /\ UNCHANGED <<cacheVars, services, processes, running, executor_shutdown, monitors,
                   childVars, hdl, result, prioFailed, mainVars, apiVars,
                   monStarts, stopped, respawnFailed, startLog, stopAllLog, started>>

\* Lines 157 and 159: del self.processes[service_name]
MonDelete ==
    /\ pc["mon"] = "mon_del"
    /\ IF Has(processes, arg["mon"])
       THEN /\ processes' = Del(processes, arg["mon"])
            /\ started' = Without(started, arg["mon"])
            /\ pc' = [pc EXCEPT !["mon"] = "sweep"]
       ELSE /\ pc' = [pc EXCEPT !["mon"] = monitor_except]
            /\ UNCHANGED <<processes, started>>
    /\ UNCHANGED <<cacheVars, services, restart_counts, running, executor_shutdown, monitors,
                   childVars, arg, hdl, result, prioFailed, polled, mainVars, snapshot, apiVars,
                   detected, monStarts, failed, stopped,
                   respawnFailed, startLog, stopAllLog>>

\* Lines 163-165: except Exception: log, sleep 10 s, next tick
MonBackoff ==
    /\ pc["mon"] = "backoff"
    /\ snapshot' = <<>>
    /\ pc' = [pc EXCEPT !["mon"] = "check"]
    /\ UNCHANGED <<cacheVars, mgrVars, childVars, arg, hdl, result, prioFailed, polled, mainVars, apiVars,
                   histVars>>

\* --------------------------------------------------------- child processes
\* A child exits by itself.
ChildExit ==
    /\ \E p \in alive : alive' = alive \ {p}
    /\ UNCHANGED <<cacheVars, mgrVars, spawnCount, threadVars, mainVars, snapshot,
                   apiVars, histVars>>

\* ----------------------------------------------------------- the program
Next ==
    \/ StartAll \/ StartAllLoop \/ Submit \/ MainLoop
    \/ Signal \/ StopAll \/ StopAllLoop \/ Shutdown \/ StopAllReturn
    \/ MonCheck \/ MonSnapshot \/ MonSweep \/ MonDelete \/ MonBackoff
    \/ \E t \in Threads : StartSpawn(t)
    \/ \E t \in Threads : StartStore(t)
    \/ \E t \in Threads : StartPriority(t)
    \/ \E t \in Threads : StopCheck(t)
    \/ \E t \in Threads : StopRead(t)
    \/ \E t \in Threads : StopTerminate(t)
    \/ \E t \in Threads : StopDelete(t)
    \/ ChildExit

Spec == Init /\ [][Next]_vars

\* The steps of the monitor thread.  The thread sleeps between ticks and is
\* never blocked, so a scheduler that is fair to it lets it take its next
\* step.
MonitorStep ==
    \/ MonCheck \/ MonSnapshot \/ MonSweep \/ MonDelete \/ MonBackoff
    \/ StartSpawn("mon") \/ StartStore("mon") \/ StartPriority("mon")
    \/ StopCheck("mon") \/ StopRead("mon")
    \/ StopTerminate("mon") \/ StopDelete("mon")

\* The program under a scheduler that is fair to the monitor thread, run
\* with services of one priority (the priority decides the order of
\* start_all's starts and nothing else).
FairConfigs == {c \in ProgramConfigs : c.priority = NORMAL}

InitFair ==
    /\ InitCommon
    /\ \E cfgs \in [Registered -> FairConfigs] :
          services = Registry(cfgs, NumServices)
    /\ restart_counts = [n \in Registered |-> 0]
    /\ pc = [main |-> "start_all", mon |-> "unsubmitted"]
    /\ stage = "try"

SpecFair == InitFair /\ [][Next]_vars /\ WF_vars(MonitorStep)

\* ------------------------------------------------- a thread calling the API
\* The configurations add_service is called with.
ApiConfigs == {ServiceConfig(p, TRUE, MaxRestarts) : p \in Priority}

Maps == <<processes, services, restart_counts>>

\* A fresh ProcessManager (lines 46-51) and a thread about to call it.
InitApi ==
    /\ InitCommon
    /\ services = <<>>
    /\ restart_counts = <<>>
    /\ pc = [main |-> "api_idle", mon |-> "unsubmitted"]
    /\ stage = "api"

\* SpecLib: the one service of the manager, the configurations it is
\* registered with and registered again with.
LibNames == {ServiceNames[1]}
LibConfigs == {ServiceConfig(NORMAL, TRUE, m) : m \in 0..MaxRestarts}

\* The calls a calling thread makes, and what it calls add_service with.
CallBudget == IF stage = "lib" THEN MaxLibCalls ELSE MaxCalls
AddConfigs == IF stage = "lib" THEN LibConfigs ELSE ApiConfigs
AddNames == IF stage = "lib" THEN LibNames ELSE Names

\* Lines 53-57
ApiAddService ==
    /\ pc["main"] = "api_idle"
    /\ calls < CallBudget
    /\ \E name \in AddNames, cfg \in AddConfigs :
          /\ services' = add_service_services(name, cfg)
          /\ restart_counts' = add_service_counts(name)
          /\ reAdded' = [reAdded EXCEPT ![name] = @ \/ Has(services, name)]
          /\ lastCall' = curCall
          /\ curCall' = <<"add_service", name>>
    /\ calls' = calls + 1
    /\ pre' = Maps
    /\ raised' = FALSE
    /\ UNCHANGED <<cacheVars, processes, running, executor_shutdown, monitors, childVars,
                   threadVars, mainVars, snapshot, histVars>>

\* The thread calls start_service(name), stop_service(name), start_all() or
\* stop_all().
ApiCall(fn, name) ==
    /\ pc["main"] = "api_idle"
    /\ calls < CallBudget
    /\ calls' = calls + 1
    /\ pre' = Maps
    /\ raised' = FALSE
    /\ lastCall' = curCall
    /\ curCall' = <<fn, name>>
    /\ pc' = [pc EXCEPT !["main"] = fn]
    /\ arg' = [arg EXCEPT !["main"] = name]
    /\ result' = [result EXCEPT !["main"] = "none"]
    /\ UNCHANGED <<cacheVars, mgrVars, childVars, hdl, prioFailed, polled, mainVars, snapshot,
                   reAdded, histVars>>

ApiStartService == \E name \in Names : ApiCall("start_service", name)

ApiStopService == \E name \in Names : ApiCall("stop_service", name)

ApiStartAll == ApiCall("start_all", NoName)

NextApi ==
    \/ ApiAddService \/ ApiStartService \/ ApiStopService \/ ApiStartAll
    \/ StartAll \/ StartAllLoop \/ Submit
    \/ StartSpawn("main") \/ StartStore("main") \/ StartPriority("main")
    \/ StopCheck("main") \/ StopRead("main")
    \/ StopTerminate("main") \/ StopDelete("main")
    \/ ChildExit

SpecApi == InitApi /\ [][NextApi]_vars

\* ------------------------------------- a thread calling beside the monitor
ApiStopAll == ApiCall("stop_all", NoName)

\* A ProcessManager to which a service has been added, and a thread about
\* to call it.
InitLib ==
    /\ InitCommon
    /\ \E cfgs \in [LibNames -> LibConfigs] :
          services = Registry(cfgs, Cardinality(LibNames))
    /\ restart_counts = [n \in LibNames |-> 0]
    /\ pc = [main |-> "api_idle", mon |-> "unsubmitted"]
    /\ stage = "lib"

NextLib ==
    \/ ApiAddService \/ ApiStartAll \/ ApiStopAll
    \/ StartAll \/ StartAllLoop \/ Submit
    \/ StopAll \/ StopAllLoop \/ Shutdown \/ StopAllReturn
    \/ MonCheck \/ MonSnapshot \/ MonSweep \/ MonDelete \/ MonBackoff
    \/ \E t \in Threads : StartSpawn(t)
    \/ \E t \in Threads : StartStore(t)
    \/ \E t \in Threads : StartPriority(t)
    \/ \E t \in Threads : StopCheck(t)
    \/ \E t \in Threads : StopRead(t)
    \/ \E t \in Threads : StopTerminate(t)
    \/ \E t \in Threads : StopDelete(t)
    \/ ChildExit

SpecLib == InitLib /\ [][NextLib]_vars

\* ================================================================ claims
ConfigOf(n) == Get(services, n)
MonitorHandles(n) == pc["mon"] = "mon_del" /\ arg["mon"] = n

\* C1: a service with restart_on_failure = true and max_restarts = N is
\* restarted by the monitor at most N times; the monitor gives it up exactly
\* at the (N+1)th exit it detects, after exactly N restarts, the service is
\* then out of the active-process map, and no further start follows (a
\* further start would make the number of restarts exceed N).
RestartBudgetExact ==
    \A n \in Registered :
        ConfigOf(n).restart_on_failure =>
            /\ monStarts[n] <= ConfigOf(n).max_restarts
            /\ detected[n] <= ConfigOf(n).max_restarts + 1
            /\ failed[n] <=> detected[n] = ConfigOf(n).max_restarts + 1
            /\ failed[n] =>
                  /\ monStarts[n] = ConfigOf(n).max_restarts
                  /\ restart_counts[n] = ConfigOf(n).max_restarts
                  /\ MonitorHandles(n) \/ ~Has(processes, n)

\* C1 witness: a service with max_restarts = 2 that was restarted twice and
\* given up at its third exit, with no shutdown under way.
RestartBudgetExactWitness ==
    \E n \in Registered :
        /\ ConfigOf(n).restart_on_failure
        /\ ConfigOf(n).max_restarts = 2
        /\ failed[n]
        /\ detected[n] = 3
        /\ monStarts[n] = 2
        /\ ~Has(processes, n)
        /\ ~signalled

\* C2: a service with restart_on_failure = false is never started by the
\* monitor, its restart counter stays 0, the monitor detects at most one exit
\* of it, and once that exit has been handled the service is out of the
\* active-process map.
NoRestartPolicy ==
    \A n \in Registered :
        ~ConfigOf(n).restart_on_failure =>
            /\ monStarts[n] = 0
            /\ restart_counts[n] = 0
            /\ detected[n] <= 1
            /\ failed[n] <=> detected[n] = 1
            /\ failed[n] => MonitorHandles(n) \/ ~Has(processes, n)

\* C2 witness: the monitor has detected the exit of such a service, whose
\* budget would have allowed a restart, and removed it while running.
NoRestartPolicyWitness ==
    \E n \in Registered :
        /\ ~ConfigOf(n).restart_on_failure
        /\ ConfigOf(n).max_restarts > 0
        /\ detected[n] = 1
        /\ pc["mon"] = "sweep"
        /\ ~Has(processes, n)
        /\ ~signalled

\* C3 (as claimed): when stop_all returns after a signal that came while the
\* monitor was active, the active-process map is empty and no child is alive.
StopAllLeavesNothing ==
    (pc["main"] = "stop_all_ret" /\ sigAtMonitor) =>
        (processes = <<>> /\ alive = {})

\* C4 (as claimed): once main's stop_service has stopped a service, the
\* monitor never starts it again.
StoppedStaysStopped ==
    [][\A n \in Names : stopped[n] => monStarts'[n] = monStarts[n]]_vars

\* C5 (as claimed): after a signal delivered while the monitor is active, the
\* interpreter ends with exit status 0.
CleanExitAfterSignal ==
    (pc["main"] = "exited" /\ sigAtMonitor) => exitStatus = 0

RegIndex(n) == CHOOSE i \in 1..Len(services) : services[i].k = n
PriorityOf(n) == ConfigOf(n).priority
StartAllDone == pc["main"] \in {"submit", "api_done"}

\* C6: start_all attempts the starts in descending priority, services of
\* equal priority in registration order, each registered service once.
StartOrderStable ==
    /\ \A i, j \in 1..Len(startLog) :
          i < j =>
             /\ PriorityOf(startLog[i]) >= PriorityOf(startLog[j])
             /\ PriorityOf(startLog[i]) = PriorityOf(startLog[j]) =>
                   RegIndex(startLog[i]) < RegIndex(startLog[j])
    /\ StartAllDone =>
          /\ Len(startLog) = Len(services)
          /\ \A i \in 1..Len(services) :
                \E j \in 1..Len(startLog) : startLog[j] = services[i].k

\* C6 witness: start_all has started three services: two of equal priority
\* in their registration order, and after them the one registered first,
\* whose priority is lower.
StartOrderStableWitness ==
    /\ StartAllDone
    /\ Len(startLog) = 3
    /\ PriorityOf(startLog[1]) = PriorityOf(startLog[2])
    /\ PriorityOf(startLog[2]) > PriorityOf(startLog[3])
    /\ RegIndex(startLog[3]) = 1

IsCall(fn) == pc["main"] = "api_idle" /\ curCall[1] = fn

\* C7: a stop_service call never raises, and one that repeats the call
\* before it, or whose name is not in the active-process map, leaves the
\* active-process map, the registry and the restart counters as they were.
StopServiceIdempotent ==
    /\ curCall[1] = "stop_service" => ~raised
    /\ (/\ IsCall("stop_service")
        /\ lastCall = curCall \/ ~Has(pre[1], curCall[2])) => Maps = pre

\* C7 witness: stop_service(name) has returned for the second time in
\* succession, the first call having stopped a process of that name.
StopServiceIdempotentWitness ==
    /\ IsCall("stop_service")
    /\ lastCall = curCall
    /\ stopped[curCall[2]]
    /\ ~raised

\* C8 (as claimed): after start_service(name) has returned True the map holds
\* the newly spawned process under name; after it has returned False the map
\* holds no entry for name.
StartServiceMapContract ==
    IsCall("start_service") =>
        /\ result["main"] = "True" =>
              /\ Has(processes, curCall[2])
              /\ Get(processes, curCall[2]) = <<curCall[2], spawnCount[curCall[2]]>>
        /\ result["main"] = "False" => ~Has(processes, curCall[2])

\* C8 (amended): after start_service(name) has returned True the map holds
\* the newly spawned process under name; after it has returned False the map
\* is as the call found it, so it holds an entry for name only if it did
\* before the call.
StartServiceMapAmended ==
    IsCall("start_service") =>
        /\ result["main"] \in {"True", "False"}
        /\ result["main"] = "True" =>
              /\ Has(processes, curCall[2])
              /\ Get(processes, curCall[2]) = <<curCall[2], spawnCount[curCall[2]]>>
              /\ Get(processes, curCall[2]) = hdl["main"]
        /\ result["main"] = "False" => processes = pre[1]

\* C8 witness: start_service has returned False, its spawn having failed,
\* for a name that was active when it was called and still is.
StartServiceMapWitness ==
    /\ IsCall("start_service")
    /\ result["main"] = "False"
    /\ Has(services, curCall[2])
    /\ Has(pre[1], curCall[2])
    /\ processes = pre[1]

\* C9 (as claimed): a tick that ends in the except clause has examined every
\* item of its sweep.
TickExaminesAll ==
    pc["mon"] = "backoff" => snapshot = <<>>

\* C10 (as claimed): a service whose restart failed to spawn with restart
\* budget left is still in the active-process map, to be retried, when the
\* monitor of a running supervisor comes to its next tick.
RespawnFailureRetried ==
    \A n \in Registered :
        (/\ respawnFailed[n]
         /\ restart_counts[n] < ConfigOf(n).max_restarts
         /\ running
         /\ pc["mon"] = "check") => Has(processes, n)

\* The place of an event in the order stop_all and the handler prescribe.
StopAllRank(e) ==
    CASE e = "flag" -> 1
      [] e = "stop" -> 2
      [] e = "wait" -> 3
      [] e = "joined" -> 4
      [] e = "exit0" -> 5
      [] OTHER -> 0

\* C11: in a stop_all call the running flag is set to false before any
\* process is stopped (no process is stopped while the flag is true), every
\* stop of the call comes before the wait for the monitor begins, and in the
\* signal handler sys.exit(0) comes only after that wait has completed.
ShutdownOrder ==
    /\ stopAllLog # <<>> => stopAllLog[1] = "flag"
    /\ \A i \in 1..Len(stopAllLog) : StopAllRank(stopAllLog[i]) > 0
    /\ \A i, j \in 1..Len(stopAllLog) :
          i < j => StopAllRank(stopAllLog[i]) < StopAllRank(stopAllLog[j])
    /\ \A i \in 1..Len(stopAllLog) :
          /\ stopAllLog[i] = "joined" => i > 1 /\ stopAllLog[i - 1] = "wait"
          /\ stopAllLog[i] = "exit0" => i > 1 /\ stopAllLog[i - 1] = "joined"
    /\ exc = "SystemExit" => executor_shutdown /\ ~MonitorActive

\* C11 witness: the handler's stop_all, called while the monitor was active,
\* has set the flag, stopped a process, waited for the monitor, and the
\* handler has called sys.exit(0).
ShutdownOrderWitness ==
    /\ sigAtMonitor
    /\ stopAllLog = <<"flag", "stop", "wait", "joined", "exit0">>
    /\ exc = "SystemExit"

Attempts(n) == Cardinality({i \in 1..Len(startLog) : startLog[i] = n})

\* C13: when start_all has returned to main, whatever spawns failed on the
\* way, every registered service has had exactly one start attempt and the
\* monitor has been launched.
StartAllSurvivesFailures ==
    pc["main"] = "main_loop" =>
        /\ \A n \in Registered : Attempts(n) = 1
        /\ Len(startLog) = Len(services)
        /\ pc["mon"] # "unsubmitted"

\* C13 witness: start_all has returned, the spawn of the service it started
\* first has failed, the service after it was started and runs, and the
\* monitor is active.
StartAllSurvivesFailuresWitness ==
    /\ pc["main"] = "main_loop"
    /\ Len(startLog) = 2
    /\ spawnCount[startLog[1]] = 0
    /\ Has(processes, startLog[2])
    /\ MonitorActive

\* C15 (as claimed): with the main thread and the monitor thread acting on
\* the same service, no KeyError is raised: none leaves stop_service on the
\* main thread, none reaches the monitor's except clause.
StopServiceNeverRaises ==
    exc # "KeyError" /\ pc["mon"] # "backoff"

\* C16 (as claimed): once stop_all has removed an entry of the
\* active-process map on the main thread, no step of the monitor thread
\* inserts into the map or deletes from it.
MapHasOneWriter ==
    [][((\E n \in Names : stopped[n]) /\ pc'["mon"] # pc["mon"])
          => processes' = processes]_vars

\* C18: once the wait of stop_all has completed, so from the normal return of
\* stop_all on, the monitor loop has terminated: the monitor thread is not
\* in monitor_services and takes no step, so it starts and stops nothing.
MonitorGoneAfterStopAll ==
    [][executor_shutdown' =>
          /\ pc'["mon"] \in {"unsubmitted", "done"}
          /\ executor_shutdown =>
                /\ pc'["mon"] = pc["mon"]
                /\ monStarts' = monStarts
                /\ snapshot' = snapshot]_vars

\* C18 witness: the stop_all of the signal handler, called while the monitor
\* was active, is about to return and the monitor has left its loop.
MonitorGoneAfterStopAllWitness ==
    /\ sigAtMonitor
    /\ stage = "handler"
    /\ pc["main"] = "stop_all_ret"
    /\ executor_shutdown
    /\ pc["mon"] = "done"

\* C19: the monitor thread leaves monitor_services only from the test of the
\* running flag at the head of a tick, finding it false; an exception in a
\* tick takes it to the except clause and from there to the next such test.
MonitorExitsOnlyOnFlag ==
    [][/\ (pc["mon"] # "done" /\ pc'["mon"] = "done") =>
             (pc["mon"] = "check" /\ ~running)
       /\ (pc["mon"] = "backoff" /\ pc'["mon"] # "backoff") =>
             pc'["mon"] = "check"]_vars

\* C19 witness: a KeyError of a tick has been caught and the monitor thread
\* is in the sleep of its except clause, the interpreter still running.
MonitorExitsOnlyOnFlagWitness ==
    /\ pc["mon"] = "backoff"
    /\ exitStatus = -1

\* C14: the step of start_service that follows a failed priority adjustment
\* returns True, stops no child and leaves the active-process map as it is,
\* with the entry of the spawned process in it.
PriorityFailureHarmless ==
    [][(pc["main"] = "start_prio" /\ pc'["main"] # "start_prio" /\ prioFailed')
          => /\ result'["main"] = "True"
             /\ alive' = alive
             /\ processes' = processes
             /\ Has(processes', arg["main"])
             /\ Get(processes', arg["main"]) = hdl["main"]]_vars

\* C14 witness: start_service has returned True although its priority
\* adjustment failed; the process it spawned runs and is in the map.
PriorityFailureHarmlessWitness ==
    /\ IsCall("start_service")
    /\ prioFailed
    /\ result["main"] = "True"
    /\ Has(processes, curCall[2])
    /\ Get(processes, curCall[2]) = hdl["main"]
    /\ hdl["main"] \in alive

\* C12 (as claimed): every restart counter is between 0 and the max_restarts
\* of its service, and no step of the supervisor makes it smaller.
RestartCountMonotone ==
    [][\A n \in DOMAIN restart_counts :
          /\ restart_counts'[n] >= restart_counts[n]
          /\ restart_counts'[n] >= 0
          /\ restart_counts'[n] <= Get(services', n).max_restarts]_vars

\* C12 (amended): with one monitor loop at work, the restart counter of a
\* service that add_service has registered once is between 0 and the
\* service's max_restarts, and no step makes it smaller; a call of
\* add_service sets the counter of its name to 0.
RestartCountMonotoneOnceAdded ==
    [][/\ \A n \in DOMAIN restart_counts :
          (~reAdded'[n] /\ monitors' <= 1) =>
              /\ restart_counts'[n] >= restart_counts[n]
              /\ restart_counts'[n] >= 0
              /\ restart_counts'[n] <= Get(services', n).max_restarts
       /\ (calls' = calls + 1 /\ curCall'[1] = "add_service") =>
              restart_counts'[curCall'[2]] = 0]_vars

\* C12 witness: a service registered once has used up its budget of two
\* restarts under one monitor loop; its second restart has succeeded and
\* the process runs.
RestartCountMonotoneWitness ==
    \E n \in LibNames :
        /\ ~reAdded[n]
        /\ monitors = 1
        /\ ConfigOf(n).max_restarts = 2
        /\ restart_counts[n] = 2
        /\ monStarts[n] = 2
        /\ Has(processes, n)
        /\ Get(processes, n) \in alive

ExitedInMap(n) == Has(processes, n) /\ Get(processes, n) \notin alive

\* C20: with the monitor thread scheduled fairly, whenever the supervisor is
\* running with its monitor at work and the process of a service in the
\* active-process map has exited, a state follows in which the service is
\* out of the map or a running process is in the map for it, unless the
\* supervisor stops running first.
ExitsResolved ==
    \A n \in Registered :
        (running /\ MonitorActive /\ ExitedInMap(n))
            ~> (~running \/ ~ExitedInMap(n))

\* C20 witness: the monitor of a running supervisor has detected the exit of
\* a service and restarted it, and the new process is in the map and runs.
ExitsResolvedWitness ==
    \E n \in Registered :
        /\ running
        /\ MonitorActive
        /\ detected[n] = 1
        /\ monStarts[n] = 1
        /\ Has(processes, n)
        /\ ~ExitedInMap(n)

\* C17 (as claimed): when a start_all call has returned and no call has
\* followed it, exactly one monitor loop is at work.
OneMonitorLoop ==
    (pc["main"] = "api_idle" /\ curCall[1] = "start_all" /\ ~raised)
        => monitors = 1

\* C21: whatever exit code the poll of an exited child returns, the monitor
\* reacts, and its reaction is the one the service's policy and restart
\* counter prescribe: the counter is incremented and the restart begun, or
\* the removal begun with the counters as they are; the step itself leaves
\* the active-process map as it is.
ExitCodeIgnored ==
    [][(pc["mon"] = "sweep" /\ snapshot # <<>> /\ snapshot' # snapshot
           /\ polled' # None) =>
          LET n == Head(snapshot).k
              restart == /\ ConfigOf(n).restart_on_failure
                         /\ restart_counts[n] < ConfigOf(n).max_restarts
          IN  /\ detected'[n] = detected[n] + 1
              /\ processes' = processes
              /\ restart =>
                    /\ restart_counts' = [restart_counts EXCEPT ![n] = @ + 1]
                    /\ pc'["mon"] = "stop_service"
              /\ ~restart =>
                    /\ restart_counts' = restart_counts
                    /\ pc'["mon"] = "mon_del"]_vars

\* C21 witness: the poll of a child has returned exit code 0 and the monitor
\* has begun the restart of the service as it does after a failure.
ExitCodeIgnoredWitness ==
    /\ polled = <<0>>
    /\ pc["mon"] = "stop_service"
    /\ restart_counts[arg["mon"]] = 1
    /\ running

\* C22: while start_all is in progress no monitor loop has been submitted,
\* so the main thread is the only one in start_service and no tick has
\* happened; start_all begins the start of a service only when the start
\* before it has returned, and a start returns True only from its priority
\* adjustment.
StartupSequential ==
    [][/\ op' = "start_all" =>
             /\ pc'["mon"] = "unsubmitted"
             /\ monitors' = 0
             /\ snapshot' = <<>>
             /\ \A n \in Names : detected'[n] = 0
       /\ (startLog' # startLog /\ startLog # <<>>) =>
             result["main"] \in {"True", "False"}
       /\ (result'["main"] = "True" /\ result["main"] # "True") =>
             pc["main"] = "start_prio"]_vars

\* C22 witness: start_all has started two services one after the other and
\* returned; the monitor loop has been submitted and is before its first
\* tick.
StartupSequentialWitness ==
    /\ pc["main"] = "main_loop"
    /\ pc["mon"] = "check"
    /\ monitors = 1
    /\ Len(startLog) = 2
    /\ \A i \in 1..2 : spawnCount[startLog[i]] = 1
    /\ \A n \in Names : detected[n] = 0

StopAllTakesList == pc["main"] = "stop_all" /\ pc'["main"] = "stop_all_loop"

\* C23 (as claimed): the list of names stop_all goes through has the most
\* recently started process first and the one started first last.
StopOrderReversed ==
    [][StopAllTakesList => queue' = Reverse(started)]_vars

\* C23 (amended): the list of names stop_all goes through has the process
\* started first at its head and the most recently started or restarted at
\* its end, and stop_all stops them from the head on.
StopOrderIsStartOrder ==
    [][/\ StopAllTakesList => queue' = started
       /\ (pc["main"] = "stop_all_loop" /\ pc'["main"] = "stop_service") =>
             /\ arg'["main"] = Head(queue)
             /\ queue' = Tail(queue)]_vars

\* C23 witness: stop_all has taken its list while two services were active,
\* the one registered first having been restarted by the monitor after the
\* other was started: the other is at the head of the list.
StopOrderIsStartOrderWitness ==
    /\ pc["main"] = "stop_all_loop"
    /\ stopAllLog = <<"flag">>
    /\ queue = <<ServiceNames[2], ServiceNames[1]>>
    /\ queue = started
    /\ monStarts[ServiceNames[1]] = 1
    /\ monStarts[ServiceNames[2]] = 0
    /\ PriorityOf(ServiceNames[1]) = PriorityOf(ServiceNames[2])

\* A step of the monitor thread, and the service it is handling: the item
\* of the sweep it polls, then the service whose exit it found.
MonitorMoves ==
    /\ pc'["main"] = pc["main"]
    /\ pc'["mon"] # pc["mon"] \/ snapshot' # snapshot
HandledByMonitor ==
    CASE pc["mon"] \in {"unsubmitted", "check", "snapshot", "backoff", "done"}
           -> NoName
      [] pc["mon"] = "sweep"
           -> IF snapshot = <<>> THEN NoName ELSE Head(snapshot).k
      [] OTHER -> arg["mon"]

OthersIn(d, x) == SelectSeq(d, LAMBDA e : e.k # x)

\* C24: a step the monitor takes while it handles the exit of a service X
\* leaves the entry in the active-process map (and its place among the
\* others), the restart counter and the registered configuration of every
\* other service as they were.
MonitorTouchesOnlyHandled ==
    [][MonitorMoves =>
         /\ OthersIn(processes', HandledByMonitor)
               = OthersIn(processes, HandledByMonitor)
         /\ DOMAIN restart_counts' = DOMAIN restart_counts
         /\ \A y \in DOMAIN restart_counts \ {HandledByMonitor} :
               restart_counts'[y] = restart_counts[y]
         /\ services' = services]_vars

\* C24 witness: the monitor has restarted one service and stored its new
\* process while the other service is in the map, its counter untouched.
MonitorTouchesOnlyHandledWitness ==
    /\ pc["mon"] = "start_prio"
    /\ arg["mon"] = ServiceNames[1]
    /\ monStarts[ServiceNames[1]] = 1
    /\ restart_counts[ServiceNames[1]] = 1
    /\ Has(processes, ServiceNames[1])
    /\ Has(processes, ServiceNames[2])
    /\ restart_counts[ServiceNames[2]] = 0

\* C25: between any two calls of add_service, start_service, stop_service,
\* start_all and stop_all, every child process that is running is the one
\* the active-process map holds for its name, so that no name has two
\* running children and none is out of the manager's reach.
NoOrphans ==
    pc["main"] = "api_idle" =>
        /\ \A p \in alive : Has(processes, p[1]) /\ Get(processes, p[1]) = p
        /\ \A p, q \in alive : p[1] = q[1] => p = q

\* C26: add_service for a name that is registered already leaves the
\* registry with the same names in the same places and one entry per name,
\* the entries of the other names as they were and a configuration for the
\* name; the name's restart counter is 0, the other counters and the
\* active-process map are as the call found them.
ReAddKeepsPlace ==
    (IsCall("add_service") /\ Has(pre[2], curCall[2])) =>
        LET name == curCall[2]
        IN  /\ Keys(services) = Keys(pre[2])
            /\ \A i, j \in 1..Len(services) :
                  services[i].k = services[j].k => i = j
            /\ \A i \in 1..Len(services) :
                  services[i].k # name => services[i] = pre[2][i]
            /\ Get(services, name) \in AddConfigs
            /\ restart_counts[name] = 0
            /\ DOMAIN restart_counts = DOMAIN pre[3]
            /\ \A n \in DOMAIN restart_counts \ {name} :
                  restart_counts[n] = pre[3][n]
            /\ processes = pre[1]

\* C26 witness: the first of two registered services, its process in the
\* map, has been registered again with another configuration.
ReAddKeepsPlaceWitness ==
    /\ IsCall("add_service")
    /\ Has(pre[2], curCall[2])
    /\ Len(services) = 2
    /\ services[1].k = curCall[2]
    /\ services[1].v # pre[2][1].v
    /\ Has(processes, curCall[2])

\* The stop_all of main's finally block, entered after the signal handler's
\* stop_all has returned and sys.exit(0) has raised SystemExit.
InSecondStopAll == stage = "finally" /\ exc = "SystemExit"

\* C27: the stop_all that follows a completed stop_all raises nothing (the
\* SystemExit of the handler stays the exception in flight and the exit
\* status is 0), leaves running false at every step, and returns with the
\* active-process map empty.
SecondStopAllHarmless ==
    [][InSecondStopAll =>
         /\ exc' = "SystemExit"
         /\ stage' = "finally"
         /\ ~running'
         /\ pc'["main"] = "exited" =>
               /\ processes' = <<>>
               /\ exitStatus' = 0
               /\ executor_shutdown']_vars

\* C27 witness: the second stop_all has returned and the interpreter has
\* ended, after a first stop_all that had a process to stop.
SecondStopAllHarmlessWitness ==
    /\ pc["main"] = "exited"
    /\ exc = "SystemExit"
    /\ signalled
    /\ \E n \in Registered : stopped[n]
    /\ processes = <<>>
    /\ stopAllLog = <<"flag", "wait", "joined">>

\* C28: start_service for a name that is not registered returns False,
\* leaves the active-process map, the registry and the restart counters as
\* the call found them, and spawns no child: no process of that name has
\* ever been spawned.
UnknownNameRefused ==
    (IsCall("start_service") /\ ~Has(pre[2], curCall[2])) =>
        /\ result["main"] = "False"
        /\ ~raised
        /\ Maps = pre
        /\ spawnCount[curCall[2]] = 0
        /\ \A p \in alive : p[1] # curCall[2]

\* C28 witness: start_service has returned for a name that is not
\* registered while a process of a registered service is in the map.
UnknownNameRefusedWitness ==
    /\ IsCall("start_service")
    /\ ~Has(services, curCall[2])
    /\ result["main"] = "False"
    /\ services # <<>>
    /\ processes # <<>>
    /\ alive # {}

\* ------------------------------------------------ the data service's cache
\* src/config.py, line 28
CACHE_TIMEOUT == 60

\* The seconds in a day: a timedelta is kept as days, seconds in 0..86399
\* and microseconds.
SecondsPerDay == 86400

\* timedelta.seconds of the difference of two times (line 31): the seconds
\* field of the normalised timedelta, the days left out.
timedelta_seconds(delta) == delta % SecondsPerDay

\* The keys the service caches under (lines 156, 227) and what it stores.
CacheKeys == {"latest_updates", "current_events"}
CacheData == {1, 2}

\* How far the clock moves between two calls.
ClockSteps == {1, CACHE_TIMEOUT - 1, SecondsPerDay}

\* Lines 25-31
_is_cache_valid(key) ==
    IF ~Has(cache_timestamps, key)
    THEN FALSE
    ELSE LET cache_time == Get(cache_timestamps, key)
         IN  timedelta_seconds(now - cache_time) < CACHE_TIMEOUT

\* Lines 33-36
SetCache ==
    /\ \E key \in CacheKeys, data \in CacheData :
          /\ cache' = Put(cache, key, <<data>>)
          /\ cache_timestamps' = Put(cache_timestamps, key, now)
    /\ UNCHANGED <<now, ticks, got>>
    /\ UNCHANGED <<mgrVars, childVars, threadVars, mainVars, snapshot,
                   apiVars, histVars>>

\* Lines 38-42; the age recorded is the time since the store.
GetCache ==
    /\ \E key \in CacheKeys :
          got' = [key |-> key,
                  value |-> IF _is_cache_valid(key)
                            THEN Get(cache, key) ELSE None,
                  age |-> IF Has(cache_timestamps, key)
                          THEN now - Get(cache_timestamps, key) ELSE 0]
    /\ UNCHANGED <<cache, cache_timestamps, now, ticks>>
    /\ UNCHANGED <<mgrVars, childVars, threadVars, mainVars, snapshot,
                   apiVars, histVars>>

\* Time passes between two calls.
ClockTick ==
    /\ ticks < MaxTicks
    /\ \E d \in ClockSteps : now' = now + d
    /\ ticks' = ticks + 1
    /\ UNCHANGED <<cache, cache_timestamps, got>>
    /\ UNCHANGED <<mgrVars, childVars, threadVars, mainVars, snapshot,
                   apiVars, histVars>>

\* A FreefireDataService after construction (lines 20-23); the supervisor
\* beside it is idle.
InitCache == InitApi

NextCache == SetCache \/ GetCache \/ ClockTick

SpecCache == InitCache /\ [][NextCache]_vars

\* C29: _get_cache returns the stored value only for an entry stored less
\* than CACHE_TIMEOUT seconds before the call, and None for every entry
\* that is CACHE_TIMEOUT seconds old or older.
CacheNeverStale ==
    /\ got.value # None => got.age < CACHE_TIMEOUT
    /\ got.age >= CACHE_TIMEOUT => got.value = None

====
